---- MODULE Spec2Model ----
(***************************************************************************)
(* Model of the automatic provider/model resolution of the chat component  *)
(* (app/components/chat/Chat.client.tsx).                                  *)
(*                                                                         *)
(* Strings that the code inspects character by character (provider names,  *)
(* the message) are sequences of one-character strings, so that            *)
(* toLowerCase, length and the isCodey regular expression are computed.    *)
(* Model identifiers are opaque to the code and stay TLA+ strings.         *)
(***************************************************************************)
EXTENDS Integers, Sequences, FiniteSets, TLC

VARIABLES
  \* a call of chooseProviderAndModel: position, arguments, returned value
  pc, opts, result,
  \* an earlier call and what it returned, kept to compare later calls with
  memo,
  \* scripts/sync-upstream.sh: the position of a run, its flags and
  \* counters, the report and the Git repository
  sync,
  \* ChatImpl: the selected model and provider, the active providers of the
  \* settings, the prompt of the URL, the pending navigation, the pending
  \* run of the deep-link effect
  model, provider, activeProvidersSetting, searchPrompt, navPending, effectDue,
  \* ChatImpl: chatStarted, the running start animation, isLoading of useChat
  chatStarted, animating, isLoading,
  \* ChatImpl: the input text, the number of attached images, the aborted
  \* flag of chatStore, and what abort() touches in workbenchStore and
  \* logStore
  input, imageDataList, aborted, stores,
  \* the sends in flight or finished, and the messages handed to useChat
  sends, messages

\* the variables of a call of chooseProviderAndModel
callVars == <<pc, opts, result>>

\* the variables of the chat component
chatVars ==
  <<model, provider, activeProvidersSetting, searchPrompt, navPending, effectDue,
    chatStarted, animating, isLoading, input, imageDataList, aborted, stores,
    sends, messages>>

vars == <<callVars, memo, sync, chatVars>>

(***************************************************************************)
(* Bounds                                                                  *)
(***************************************************************************)
\* longest activeProviders list that is enumerated
MaxProviders == 2

(***************************************************************************)
(* Characters                                                              *)
(***************************************************************************)
UpperChars ==
  <<"A","B","C","D","E","F","G","H","I","J","K","L","M",
    "N","O","P","Q","R","S","T","U","V","W","X","Y","Z">>

LowerChars ==
  <<"a","b","c","d","e","f","g","h","i","j","k","l","m",
    "n","o","p","q","r","s","t","u","v","w","x","y","z">>

Digits == {"0","1","2","3","4","5","6","7","8","9"}

Range(s) == {s[i] : i \in DOMAIN s}

\* String.prototype.toLowerCase, one character
toLowerCaseChar(c) ==
  IF \E i \in DOMAIN UpperChars : UpperChars[i] = c
  THEN LowerChars[CHOOSE i \in DOMAIN UpperChars : UpperChars[i] = c]
  ELSE c

\* String.prototype.toLowerCase
toLowerCase(s) == [i \in DOMAIN s |-> toLowerCaseChar(s[i])]

\* String.prototype.toUpperCase, one character
toUpperCaseChar(c) ==
  IF \E i \in DOMAIN LowerChars : LowerChars[i] = c
  THEN UpperChars[CHOOSE i \in DOMAIN LowerChars : LowerChars[i] = c]
  ELSE c

\* String.prototype.toUpperCase
toUpperCase(s) == [i \in DOMAIN s |-> toUpperCaseChar(s[i])]

\* the regular expression class \w
IsWordChar(c) == c \in Range(UpperChars) \cup Range(LowerChars) \cup Digits \cup {"_"}

(***************************************************************************)
(* Provider names                                                          *)
(***************************************************************************)
NameLMStudio == <<"L","M","S","t","u","d","i","o">>
NameOllama == <<"O","l","l","a","m","a">>
NameOpenRouter == <<"O","p","e","n","R","o","u","t","e","r">>
NameOpenAI == <<"O","p","e","n","A","I">>
NameOpenRouter2 == <<"O","p","e","n","R","o","u","t","e","r","2">>
NameAnthropic == <<"A","n","t","h","r","o","p","i","c">>

\* the four names the resolver looks up
RecognizedNames == {NameLMStudio, NameOllama, NameOpenRouter, NameOpenAI}

\* names a provider of the session may carry: the recognized ones in their
\* canonical, lower and upper case spelling, and unrecognized ones
ProviderNames ==
  RecognizedNames
    \cup {toLowerCase(n) : n \in RecognizedNames}
    \cup {toUpperCase(NameOpenRouter), toUpperCase(NameLMStudio)}
    \cup {NameOpenRouter2, NameAnthropic}

\* the provider names and their lower and upper case spellings
KnownNames ==
  ProviderNames
    \cup {toLowerCase(n) : n \in ProviderNames}
    \cup {toUpperCase(n) : n \in ProviderNames}

\* toLowerCase of every name of the model, computed once
LowerName == [n \in KnownNames |-> toLowerCase(n)]

(***************************************************************************)
(* Values                                                                  *)
(***************************************************************************)
\* JavaScript undefined in a model position
undefined == "undefined"

\* JavaScript undefined in a provider position (find without a match, [0] of
\* an empty array)
undefinedProvider == [ref |-> 0 - 1, name |-> <<>>]

\* reference of the object literal { name: 'OpenRouter' } built by the
\* resolver; the elements of activeProviders have the references 1..n
SyntheticRef == 0

\* the activeProviders arrays of at most MaxProviders providers; ref is the
\* identity of the object
ProviderLists ==
  UNION {
    { [i \in 1..n |-> [ref |-> i, name |-> ns[i]]] : ns \in [1..n -> ProviderNames] }
    : n \in 0..MaxProviders }

(***************************************************************************)
(* Messages                                                                *)
(***************************************************************************)
\* the length limit of a short message
ShortLimit == 1200

\* A message is the text body followed by pad copies of PadChar, so that
\* messages around ShortLimit characters are written without spelling out
\* every character.
PadChar == "x"

\* the grave accent character (U+0060)
Grave == "GRAVE"

BodyEmpty == <<>>
BodyHello == <<"h","e","l","l","o">>
BodyFence == <<Grave,Grave,Grave,"p","y">>
BodyFunction == <<"f","u","n","c","t","i","o","n">>
BodyConst == <<"c","o","n","s","t">>
BodyConstDecl == <<"c","o","n","s","t"," ","a">>
BodyCall == <<"f","(","x",")">>
BodyCloseTag == <<"<","/","p",">">>
BodyImport == <<"i","m","p","o","r","t"," ","o","s">>
BodyLetter == <<"l","e","t","t","e","r">>
BodyDivOpen == <<"<","d","i","v"," ","i","d">>
BodySemicolon == <<"a",";">>

Bodies ==
  {BodyEmpty, BodyHello, BodyFence, BodyFunction, BodyConst, BodyConstDecl, BodyCall, BodyCloseTag,
   BodyImport, BodyLetter, BodyDivOpen, BodySemicolon}

\* every body as it is, and padded to ShortLimit and to ShortLimit + 1
\* characters
Messages ==
  {[body |-> b, pad |-> 0] : b \in Bodies}
    \cup {[body |-> b, pad |-> l - Len(b)] : b \in Bodies, l \in {ShortLimit, ShortLimit + 1}}

\* the characters of a message
Text(m) == m.body \o [i \in 1..m.pad |-> PadChar]

\* String.prototype.length of Text(m)
Length(m) == Len(m.body) + m.pad

(***************************************************************************)
(* The regular expression of isCodey                                       *)
(*  three grave accents | function | class | <div | "const " | "let " |    *)
(*  "var " | "import " | "def " | "public " | "private " | ; | { | \( |     *)
(*  <\/?[\w-]+>                                                            *)
(***************************************************************************)
LitFence == <<Grave,Grave,Grave>>
LitFunction == <<"f","u","n","c","t","i","o","n">>
LitClass == <<"c","l","a","s","s">>
LitDiv == <<"<","d","i","v">>
LitConst == <<"c","o","n","s","t"," ">>
LitLet == <<"l","e","t"," ">>
LitVar == <<"v","a","r"," ">>
LitImport == <<"i","m","p","o","r","t"," ">>
LitDef == <<"d","e","f"," ">>
LitPublic == <<"p","u","b","l","i","c"," ">>
LitPrivate == <<"p","r","i","v","a","t","e"," ">>
LitSemicolon == <<";">>
LitBrace == <<"{">>
LitParen == <<"(">>

\* the alternatives with const and let written without the space that
\* follows them in the expression
Literals_BareKeywords ==
  {LitFence, LitFunction, LitClass, LitDiv, <<"c","o","n","s","t">>,
   <<"l","e","t">>, LitVar, LitImport, LitDef, LitPublic,
   LitPrivate, LitSemicolon, LitBrace, LitParen}

\* the literal alternatives of the regular expression
Literals ==
  {LitFence, LitFunction, LitClass, LitDiv, LitConst,
   LitLet, LitVar, LitImport, LitDef, LitPublic,
   LitPrivate, LitSemicolon, LitBrace, LitParen}

\* the literal p occurs in t at position i
MatchAt(t, i, p) ==
  /\ i + Len(p) - 1 <= Len(t)
  /\ \A k \in 1..Len(p) : t[i + k - 1] = p[k]

\* the class [\w-]
IsTagChar(c) == IsWordChar(c) \/ c = "-"

\* the alternative <\/?[\w-]+> matches in t at position i
TagAt(t, i) ==
  /\ t[i] = "<"
  /\ \E j \in {i + 1} \cup (IF i + 1 <= Len(t) /\ t[i + 1] = "/" THEN {i + 2} ELSE {}) :
       \E k \in j..(Len(t) - 1) :
         /\ \A q \in j..k : IsTagChar(t[q])
         /\ t[k + 1] = ">"

\* RegExp.prototype.test of the isCodey expression on the text t
CodeyTest(t) ==
  \E i \in 1..Len(t) :
    \/ \E p \in Literals : MatchAt(t, i, p)
    \/ TagAt(t, i)

\* isCodey of every message of the model, computed once
CodeyTable == [m \in Messages |-> CodeyTest(Text(m))]

\* isCodey with one expression object shared by all calls and the g flag:
\* the test that follows a successful test starts behind that match and
\* fails
isCodey_SharedGlobalRegExp(message) ==
  IF result.model \in {"qwen2.5-coder-7b-instruct", "deepseek-coder:6.7b", "deepseek/deepseek-coder"}
  THEN FALSE
  ELSE CodeyTable[message]

\* const isCodey = /.../.test(message || ""); for a string, message || "" is
\* the message itself
isCodey(message) == CodeyTable[message]

\* short with a strict comparison
short_Strict(message) == Length(message) < ShortLimit

\* const short = (message || "").length <= 1200
short(message) == Length(message) <= ShortLimit

(***************************************************************************)
(* chooseProviderAndModel                                                  *)
(***************************************************************************)
\* the model identifiers the resolver returns
ModelIds ==
  {"qwen2.5-coder-7b-instruct", "meta-llama-3.1-8b-instruct",
   "deepseek-coder:6.7b", "llama3.1:8b",
   "deepseek/deepseek-coder", "openai/gpt-4o-mini",
   "meta-llama/llama-3.1-8b-instruct", "gpt-4o-mini"}

\* byName that returns a new object with the name of the element found
byName_FreshObject(activeProviders, name) ==
  LET hits == {i \in DOMAIN activeProviders :
                 LowerName[activeProviders[i].name] = LowerName[name]}
  IN  IF hits = {}
      THEN undefinedProvider
      ELSE [ref |-> SyntheticRef,
            name |-> activeProviders[CHOOSE i \in hits : \A j \in hits : i <= j].name]

\* byName that compares the names as they are written
byName_CaseSensitive(activeProviders, name) ==
  LET hits == {i \in DOMAIN activeProviders : activeProviders[i].name = name}
  IN  IF hits = {}
      THEN undefinedProvider
      ELSE activeProviders[CHOOSE i \in hits : \A j \in hits : i <= j]

\* activeProviders.find((p) => p.name.toLowerCase() === name.toLowerCase()):
\* the first element that satisfies the test, undefined when there is none
byName(activeProviders, name) ==
  LET hits == {i \in DOMAIN activeProviders :
                 LowerName[activeProviders[i].name] = LowerName[name]}
  IN  IF hits = {}
      THEN undefinedProvider
      ELSE activeProviders[CHOOSE i \in hits : \A j \in hits : i <= j]

\* if (lmstudio && short && !hasImages)
LMStudioRule(lmstudio, isShort, hasImages) ==
  lmstudio # undefinedProvider /\ isShort /\ ~hasImages

\* LMStudioModel with the two identifiers exchanged
LMStudioModel_Swapped(codey) ==
  IF codey THEN "meta-llama-3.1-8b-instruct" ELSE "qwen2.5-coder-7b-instruct"

\* const model = isCodey ? 'qwen2.5-coder-7b-instruct' : 'meta-llama-3.1-8b-instruct'
LMStudioModel(codey) ==
  IF codey THEN "qwen2.5-coder-7b-instruct" ELSE "meta-llama-3.1-8b-instruct"

\* OllamaRule that forgets short
OllamaRule_NoShort(ollama, isShort, hasImages) ==
  ollama # undefinedProvider /\ ~hasImages

\* if (ollama && short && !hasImages)
OllamaRule(ollama, isShort, hasImages) ==
  ollama # undefinedProvider /\ isShort /\ ~hasImages

\* OllamaModel with the hyphenated general identifier of LM Studio
OllamaModel_Hyphenated(codey) ==
  IF codey THEN "deepseek-coder:6.7b" ELSE "meta-llama-3.1-8b-instruct"

\* const model = isCodey ? 'deepseek-coder:6.7b' : 'llama3.1:8b'
OllamaModel(codey) ==
  IF codey THEN "deepseek-coder:6.7b" ELSE "llama3.1:8b"

\* OpenRouterModel whose first test forgets short
OpenRouterModel_NoShort(codey, isShort, hasImages) ==
  IF codey /\ ~hasImages
  THEN "deepseek/deepseek-coder"
  ELSE IF hasImages \/ ~isShort
       THEN "openai/gpt-4o-mini"
       ELSE "meta-llama/llama-3.1-8b-instruct"

\* the three returns of the if (openrouter) block
OpenRouterModel(codey, isShort, hasImages) ==
  IF codey /\ isShort /\ ~hasImages
  THEN "deepseek/deepseek-coder"
  ELSE IF hasImages \/ ~isShort
       THEN "openai/gpt-4o-mini"
       ELSE "meta-llama/llama-3.1-8b-instruct"

\* OpenAIModel with a different model on the images-or-long path
OpenAIModel_Diverging(isShort, hasImages) ==
  IF hasImages \/ ~isShort THEN "gpt-4o" ELSE "gpt-4o-mini"

\* the two returns of the if (openai) block
OpenAIModel(isShort, hasImages) ==
  IF hasImages \/ ~isShort THEN "gpt-4o-mini" ELSE "gpt-4o-mini"

\* first that takes the last element of the list
first_Last(activeProviders) ==
  IF Len(activeProviders) > 0
  THEN activeProviders[Len(activeProviders)]
  ELSE undefinedProvider

\* const first = activeProviders?.[0]
first(activeProviders) ==
  IF Len(activeProviders) > 0 THEN activeProviders[1] ELSE undefinedProvider

\* { name: 'OpenRouter' } as ProviderInfo
SyntheticProvider == [ref |-> SyntheticRef, name |-> NameOpenRouter]

\* FallbackResult without the test of first: an empty activeProviders gives a
\* result without a provider
FallbackResult_NoSynthetic(f) ==
  [provider |-> f, model |-> undefined]

\* FallbackResult with the vision model in the synthetic result
FallbackResult_VisionModel(f) ==
  IF f # undefinedProvider
  THEN [provider |-> f, model |-> undefined]
  ELSE [provider |-> SyntheticProvider, model |-> "openai/gpt-4o-mini"]

\* return first ? { provider: first, model: undefined }
\*              : { provider: { name: 'OpenRouter' }, model: '...' }
FallbackResult(f) ==
  IF f # undefinedProvider
  THEN [provider |-> f, model |-> undefined]
  ELSE [provider |-> SyntheticProvider, model |-> "meta-llama/llama-3.1-8b-instruct"]

\* chooseProviderAndModel that tries the Ollama rule before the LMStudio rule
chooseProviderAndModel_OllamaFirst(o) ==
  LET message == o.message
      hasImages == o.hasImages
      activeProviders == o.activeProviders
      codey == isCodey(message)
      isShort == short(message)
      lmstudio == byName(activeProviders, NameLMStudio)
      ollama == byName(activeProviders, NameOllama)
      openrouter == byName(activeProviders, NameOpenRouter)
      openai == byName(activeProviders, NameOpenAI)
  IN  IF OllamaRule(ollama, isShort, hasImages)
      THEN [provider |-> ollama, model |-> OllamaModel(codey)]
      ELSE IF LMStudioRule(lmstudio, isShort, hasImages)
      THEN [provider |-> lmstudio, model |-> LMStudioModel(codey)]
      ELSE IF openrouter # undefinedProvider
      THEN [provider |-> openrouter, model |-> OpenRouterModel(codey, isShort, hasImages)]
      ELSE IF openai # undefinedProvider
      THEN [provider |-> openai, model |-> OpenAIModel(isShort, hasImages)]
      ELSE FallbackResult(first(activeProviders))

\* the local heuristic: the rules in the order of the code, each returning
\* as soon as its condition holds
chooseProviderAndModel(o) ==
  LET message == o.message
      hasImages == o.hasImages
      activeProviders == o.activeProviders
      codey == isCodey(message)
      isShort == short(message)
      lmstudio == byName(activeProviders, NameLMStudio)
      ollama == byName(activeProviders, NameOllama)
      openrouter == byName(activeProviders, NameOpenRouter)
      openai == byName(activeProviders, NameOpenAI)
  IN  IF LMStudioRule(lmstudio, isShort, hasImages)
      THEN [provider |-> lmstudio, model |-> LMStudioModel(codey)]
      ELSE IF OllamaRule(ollama, isShort, hasImages)
      THEN [provider |-> ollama, model |-> OllamaModel(codey)]
      ELSE IF openrouter # undefinedProvider
      THEN [provider |-> openrouter, model |-> OpenRouterModel(codey, isShort, hasImages)]
      ELSE IF openai # undefinedProvider
      THEN [provider |-> openai, model |-> OpenAIModel(isShort, hasImages)]
      ELSE FallbackResult(first(activeProviders))

(***************************************************************************)
(* Calls of the resolver                                                   *)
(***************************************************************************)
\* the arguments of a call
Opts == [message : Messages, hasImages : BOOLEAN, activeProviders : ProviderLists]

\* no call has been made
NoOpts == [message |-> [body |-> <<>>, pad |-> 0], hasImages |-> FALSE, activeProviders |-> <<>>]

\* no call has returned
NoResult == [provider |-> undefinedProvider, model |-> undefined]

\* the exit status of a run of sync-upstream.sh that has not ended
NotExited == 0 - 1

\* the branch main as the script can change it: the local commit of step 1,
\* the merge, the rebase, the commits picked, the commit of the report
MainUntouched ==
  [localCommit |-> FALSE, merged |-> FALSE, rebased |-> FALSE, picked |-> <<>>,
   reportCommit |-> FALSE]

\* sync-upstream.sh is not run
NoSync ==
  [pc |-> "none", MODE |-> "pick", DRY_RUN |-> 0, DO_COMMIT |-> 0, PUSH |-> 0,
   dirty |-> FALSE, bolt |-> "absent", boltBefore |-> "absent", commits |-> <<>>,
   main |-> MainUntouched, report |-> <<>>, applied |-> 0, skipped |-> 0,
   next |-> 1, pushed |-> FALSE, exit |-> NotExited]

\* no earlier call is kept
NoMemo == [opts |-> NoOpts, result |-> NoResult, kept |-> FALSE]

\* the provider entry of PROVIDER_LIST that stands for the automatic choice
NameAutomatic == <<"A","u","t","o","m","a","t","i","c">>
AutomaticProvider == [ref |-> 10, name |-> NameAutomatic]

\* searchParams.get('prompt') without a prompt parameter
NoPrompt == [body |-> <<>>, pad |-> 0 - 1]

\* workbenchStore without running actions and logStore without an entry of
\* abort()
NoStores == [runningActions |-> FALSE, abortLogged |-> FALSE]

\* the chat component is not part of the behaviour
ChatIdle ==
  /\ model = "auto"
  /\ provider = AutomaticProvider
  /\ activeProvidersSetting = <<>>
  /\ searchPrompt = NoPrompt
  /\ navPending = FALSE
  /\ effectDue = FALSE
  /\ chatStarted = FALSE
  /\ animating = FALSE
  /\ isLoading = FALSE
  /\ input = NoOpts.message
  /\ imageDataList = 0
  /\ aborted = FALSE
  /\ stores = NoStores
  /\ sends = <<>>
  /\ messages = <<>>

Init ==
  /\ pc = "idle"
  /\ opts = NoOpts
  /\ result = NoResult
  /\ memo = NoMemo
  /\ sync = NoSync
  /\ ChatIdle

\* chooseProviderAndModel is entered with some arguments
Call ==
  /\ pc = "idle"
  /\ \E o \in Opts : opts' = o
  /\ pc' = "called"
  /\ result' = NoResult
  /\ UNCHANGED <<memo, sync, chatVars>>

\* chooseProviderAndModel runs to its return statement
Return ==
  /\ pc = "called"
  /\ pc' = "done"
  /\ result' = chooseProviderAndModel(opts)
  /\ UNCHANGED <<opts, memo, sync, chatVars>>

\* the caller has consumed the result
Reset ==
  /\ pc = "done"
  /\ pc' = "idle"
  /\ opts' = NoOpts
  /\ result' = NoResult
  /\ UNCHANGED <<memo, sync, chatVars>>

Next ==
  \/ Call
  \/ Return
  \/ Reset

Spec == Init /\ [][Next]_vars

\* a synchronous JavaScript function runs to completion once entered
FairSpec == Spec /\ WF_vars(Return)

(***************************************************************************)
(* Repeated calls of the resolver                                          *)
(***************************************************************************)
\* the provider lists of the repeated calls
DetLists ==
  {<<>>,
   <<[ref |-> 1, name |-> NameLMStudio]>>,
   <<[ref |-> 1, name |-> NameOpenAI]>>,
   <<[ref |-> 1, name |-> NameOllama], [ref |-> 2, name |-> NameOpenRouter]>>,
   <<[ref |-> 1, name |-> NameAnthropic], [ref |-> 2, name |-> NameLMStudio]>>}

\* the messages of the repeated calls: plain, code-like, and longer than
\* ShortLimit
DetMessages ==
  {[body |-> BodyHello, pad |-> 0],
   [body |-> BodyFunction, pad |-> 0],
   [body |-> BodyHello, pad |-> ShortLimit + 1 - Len(BodyHello)]}

\* the arguments of the repeated calls
DetOpts == [message : DetMessages, hasImages : BOOLEAN, activeProviders : DetLists]

DetInit == Init

\* chooseProviderAndModel is entered again; the caller still holds what the
\* call before returned
DetCall ==
  /\ pc \in {"idle", "done"}
  /\ \E o \in DetOpts : opts' = o
  /\ pc' = "called"
  /\ UNCHANGED <<result, memo, sync, chatVars>>

\* chooseProviderAndModel runs to its return statement
DetReturn ==
  /\ Return

\* the observer keeps the call that has just returned
DetKeep ==
  /\ pc = "done"
  /\ ~memo.kept
  /\ memo' = [opts |-> opts, result |-> result, kept |-> TRUE]
  /\ UNCHANGED <<callVars, sync, chatVars>>

DetNext ==
  \/ DetCall
  \/ DetReturn
  \/ DetKeep

DetSpec == DetInit /\ [][DetNext]_vars

(***************************************************************************)
(* resolveAutoProviderModel                                                *)
(***************************************************************************)
\* most sends (sendMessage calls and deep-link sends) of one behaviour
MaxSends == 2

\* a value of the shape { provider, model }
ResolvedObject(r) == [kind |-> "object", provider |-> r.provider, model |-> r.model]

\* the value undefined in the place of a resolution result
UndefinedValue == [kind |-> "undefined", provider |-> undefinedProvider, model |-> undefined]

\* a provider object made by the delegation module
DelegateProvider == [ref |-> 20, name |-> NameOpenAI]

\* what the promise of the delegated resolveAutoProviderModel may resolve
\* to (it is typed Promise<any>): undefined, an object without provider and
\* model, a provider with a model, a provider without a model
DelegateValues ==
  {UndefinedValue,
   [kind |-> "object", provider |-> undefinedProvider, model |-> undefined],
   [kind |-> "object", provider |-> DelegateProvider, model |-> "gpt-4o"],
   [kind |-> "object", provider |-> DelegateProvider, model |-> undefined]}

\* the wrapper has not settled
Pending == [status |-> "pending", value |-> UndefinedValue]

\* the wrapper returns the value v
Returns(v) == [status |-> "returned", value |-> v]

\* the wrapper rejects: an error leaves resolveAutoProviderModel
Rejects == [status |-> "rejected", value |-> UndefinedValue]

\* no call of the wrapper is in progress
NoWrapper == [pc |-> "none", how |-> "none", delegated |-> 0, res |-> Pending]

\* a call of the wrapper at await import(...)
NewWrapper == [pc |-> "import", how |-> "none", delegated |-> 0, res |-> Pending]

\* return chooseProviderAndModel(opts), the last statement of the wrapper
LocalFallback(o) == Returns(ResolvedObject(chooseProviderAndModel(o)))

\* the import outside of the try block: a failed load leaves the wrapper
AfterImportFailed_Uncaught(o) == Rejects

\* await import(...) rejects inside try: catch, then the local heuristic
AfterImportFailed(o) == LocalFallback(o)

\* mod && typeof mod.resolveAutoProviderModel === 'function' is false: the
\* if is skipped, then the local heuristic
AfterNoExport(o) == LocalFallback(o)

\* mod.resolveAutoProviderModel(opts) throws inside try: catch, then the
\* local heuristic
AfterCallThrew(o) == LocalFallback(o)

\* return mod.resolveAutoProviderModel(opts) without await: the rejection
\* is not caught by the try block
AfterCallRejected_NotAwaited(o) == Rejects

\* return await mod.resolveAutoProviderModel(opts) rejects inside try:
\* catch, then the local heuristic
AfterCallRejected(o) == LocalFallback(o)

\* return await mod.resolveAutoProviderModel(opts) with the promise
\* resolved to v
AfterCallResolved(v) == Returns(v)

(***************************************************************************)
(* ChatImpl: sendMessage and the deep-link effect                          *)
(***************************************************************************)
\* a selectable provider other than Automatic
SelectedOpenAI == [ref |-> 11, name |-> NameOpenAI]

\* the providers and models of the selectors
SelectableProviders == {AutomaticProvider, SelectedOpenAI}
SelectableModels == {"auto", "gpt-4o"}

\* the activeProviders of useSettings
ChatProviderLists ==
  {<<[ref |-> 1, name |-> NameAnthropic], [ref |-> 2, name |-> NameOpenRouter]>>}

\* the text a user sends: a long code-like one
ChatMessages ==
  {[body |-> BodyFunction, pad |-> ShortLimit + 1 - Len(BodyFunction)]}

\* the prompt of a deep link
DeepLinkPrompt == [body |-> BodyHello, pad |-> 0]

\* the empty input
EmptyInput == [body |-> <<>>, pad |-> 0]

\* the second argument of sendMessage is not given
NoMessageInput == NoPrompt

\* white space of String.prototype.trim
WhitespaceChars == {" ", "\t", "\n", "\r"}

\* !messageContent?.trim(): the text is empty or consists of white space
IsBlank(m) ==
  /\ m.pad <= 0 \/ PadChar \in WhitespaceChars
  /\ \A i \in DOMAIN m.body : m.body[i] \in WhitespaceChars

\* IsAutomatic that looks at the provider only
IsAutomatic_ProviderOnly(p, m) == p.name = NameAutomatic

\* provider?.name === 'Automatic' || model === 'auto'
IsAutomatic(p, m) == p.name = NameAutomatic \/ m = "auto"

\* resolvedModel ?? model
ModelTagValue(value, selModel) ==
  IF value.model # undefined THEN value.model ELSE selModel

\* resolvedProvider?.name ?? provider.name
ProviderTagValue(value, selProvider) ==
  IF value.provider # undefinedProvider THEN value.provider.name ELSE selProvider.name

\* the template literal `${MODEL_TAG}\n\n${PROVIDER_TAG}\n\n${rest}` with
\* MODEL_TAG = `[Model: ${m}]` and PROVIDER_TAG = `[Provider: ${p}]`, as the
\* sequence of its pieces
TaggedText(m, p, rest) ==
  <<[lit |-> "[Model: "], [lit |-> m], [lit |-> "]"], [lit |-> "\n\n"],
    [lit |-> "[Provider: "], [chars |-> p], [lit |-> "]"], [lit |-> "\n\n"]>> \o rest

\* a sendMessage call or a deep-link send: what its closure holds, how far
\* it is, and what it did
NewSend(k, o, started, p, m) ==
  [kind |-> k, pc |-> "resolve", opts |-> o,
   selModel |-> m, selProvider |-> p,
   started |-> started, images |-> imageDataList,
   seen |-> IF k = "send" /\ started THEN messages ELSE <<>>,
   call |-> NoWrapper, res |-> Pending,
   resolutions |-> 0, dispatches |-> 0]

\* the send s becomes rec
SetSend(s, rec) ==
  IF s \in DOMAIN sends THEN [sends EXCEPT ![s] = rec] ELSE Append(sends, rec)

\* a user message of the text t with n images
UserMessage(s, path, t, n, hide) ==
  [by |-> s, role |-> "user", path |-> path, text |-> t, images |-> n, hidden |-> hide]

\* a message of initialMessages
InitialMessage ==
  [by |-> 0, role |-> "user", path |-> "initial", text |-> <<[lit |-> "earlier"]>>,
   images |-> 0, hidden |-> FALSE]

\* messages.slice(0, -1)
DropLast(ms) == IF ms = <<>> THEN <<>> ELSE SubSeq(ms, 1, Len(ms) - 1)

\* the text of the user message of the send rec, tagged with what the send
\* resolved
SendText(rec, rest) ==
  TaggedText(ModelTagValue(rec.res.value, rec.selModel),
             ProviderTagValue(rec.res.value, rec.selProvider), rest)

\* the state that a dispatch of sendMessage clears: setInput(''),
\* setImageDataList([])
ClearInput ==
  /\ input' = EmptyInput
  /\ imageDataList' = 0

\* the send rec has handed its message to useChat
Dispatched(rec) == [rec EXCEPT !.pc = "done", !.dispatches = @ + 1]

\* setMessages([user message]); reload(): the first message of a chat
FirstMessage(s, rec) ==
  /\ messages' = <<UserMessage(s, "first", SendText(rec, <<[msg |-> rec.opts.message]>>),
                               rec.images, FALSE)>>
  /\ isLoading' = TRUE
  /\ sends' = SetSend(s, Dispatched(rec))
  /\ ClearInput
  /\ UNCHANGED <<aborted, stores>>

\* setMessages([user message, assistant message, hidden user message]);
\* reload(): the first message of a chat with a starter template
TemplateMessages(s, rec) ==
  /\ messages' =
       <<UserMessage(s, "template", SendText(rec, <<[msg |-> rec.opts.message]>>),
                     rec.images, FALSE),
         [by |-> s, role |-> "assistant", path |-> "template",
          text |-> <<[lit |-> "assistantMessage"]>>, images |-> 0, hidden |-> FALSE],
         UserMessage(s, "template", SendText(rec, <<[lit |-> "userMessage"]>>), 0, TRUE)>>
  /\ isLoading' = TRUE
  /\ sends' = SetSend(s, Dispatched(rec))
  /\ ClearInput
  /\ UNCHANGED <<aborted, stores>>

\* the part of sendMessage for a started chat: setMessages(messages.slice(0,
\* -1)) after an error, then append with or without the modified files
AppendMessage(s, rec) ==
  /\ \E error \in BOOLEAN, modifiedFiles \in BOOLEAN :
       LET base == IF error THEN DropLast(rec.seen) ELSE messages
           rest == IF modifiedFiles
                   THEN <<[lit |-> "userUpdateArtifact"], [msg |-> rec.opts.message]>>
                   ELSE <<[msg |-> rec.opts.message]>>
           path == IF modifiedFiles THEN "appendFiles" ELSE "append"
       IN  messages' = Append(base, UserMessage(s, path, SendText(rec, rest), rec.images, FALSE))
  /\ isLoading' = TRUE
  /\ aborted' = FALSE
  /\ UNCHANGED stores
  /\ sends' = SetSend(s, Dispatched(rec))
  /\ ClearInput

\* append of the deep-link effect
DeepLinkMessage(s, rec) ==
  /\ messages' = Append(messages,
                        UserMessage(s, "deeplink", SendText(rec, <<[msg |-> rec.opts.message]>>),
                                    0, FALSE))
  /\ isLoading' = TRUE
  /\ sends' = SetSend(s, Dispatched(rec))
  /\ UNCHANGED <<input, imageDataList, aborted, stores>>

\* what a send does once the resolution has settled with rec.res: the
\* destructuring of the result, the tags, and the dispatch or the wait for
\* the starter template
Proceed(s, rec) ==
  IF rec.res.status = "rejected" \/ rec.res.value.kind = "undefined"
  THEN \* the await throws, or undefined cannot be destructured
       /\ sends' = SetSend(s, [rec EXCEPT !.pc = "failed"])
       /\ UNCHANGED <<messages, isLoading, input, imageDataList, aborted, stores>>
  ELSE IF rec.kind = "deeplink"
  THEN DeepLinkMessage(s, rec)
  ELSE IF ~rec.started
  THEN \/ \* autoSelectTemplate: await selectStarterTemplate
          /\ sends' = SetSend(s, [rec EXCEPT !.pc = "template"])
          /\ UNCHANGED <<messages, isLoading, input, imageDataList, aborted, stores>>
       \/ FirstMessage(s, rec)
  ELSE AppendMessage(s, rec)

\* the call of the wrapper is not awaited: the send goes on with the
\* selection while the wrapper runs
Resolve_NotAwaited(s, rec) ==
  Proceed(s, [rec EXCEPT !.resolutions = IF IsAutomatic(rec.selProvider, rec.selModel)
                                         THEN @ + 1 ELSE @,
                         !.call = IF IsAutomatic(rec.selProvider, rec.selModel)
                                  THEN NewWrapper ELSE NoWrapper,
                         !.res = Returns(ResolvedObject([provider |-> rec.selProvider,
                                                         model |-> rec.selModel]))])

\* a send starts with the arguments o: in Automatic mode it awaits
\* resolveAutoProviderModel, otherwise it goes on with the selection
Resolve(s, rec) ==
  IF IsAutomatic(rec.selProvider, rec.selModel)
  THEN /\ sends' = Append(sends, [rec EXCEPT !.resolutions = @ + 1, !.call = NewWrapper])
       /\ UNCHANGED <<messages, isLoading, input, imageDataList, aborted, stores>>
  ELSE Proceed(s, [rec EXCEPT !.res = Returns(ResolvedObject([provider |-> rec.selProvider,
                                                              model |-> rec.selModel]))])

ChatInit ==
  /\ pc = "idle"
  /\ opts = NoOpts
  /\ result = NoResult
  /\ memo = NoMemo
  /\ sync = NoSync
  /\ model \in SelectableModels
  /\ provider \in SelectableProviders
  /\ activeProvidersSetting \in ChatProviderLists
  /\ searchPrompt \in {NoPrompt, DeepLinkPrompt}
  /\ navPending = FALSE
  /\ effectDue = TRUE
  /\ messages \in {<<>>, <<InitialMessage>>}
  /\ chatStarted = (messages # <<>>)
  /\ animating = FALSE
  /\ isLoading = FALSE
  /\ input = EmptyInput
  /\ imageDataList = 0
  /\ aborted = FALSE
  /\ stores = NoStores
  /\ sends = <<>>

\* the body of the effect with the dependencies [model, provider,
\* searchParams], run in a render that holds the selection p and m
DeepLinkEffectBody(p, m) ==
  IF searchPrompt # NoPrompt /\ searchPrompt # EmptyInput
  THEN /\ Len(sends) < MaxSends
       /\ navPending' = TRUE
       /\ animating' = (animating \/ ~chatStarted)
       /\ Resolve(Len(sends) + 1,
                  NewSend("deeplink",
                          [message |-> searchPrompt, hasImages |-> FALSE,
                           activeProviders |-> activeProvidersSetting],
                          chatStarted, p, m))
  ELSE UNCHANGED <<navPending, animating, sends, messages, isLoading,
                   input, imageDataList, aborted, stores>>

\* the effect runs after the first render
DeepLinkEffect ==
  /\ effectDue
  /\ effectDue' = FALSE
  /\ DeepLinkEffectBody(provider, model)
  /\ UNCHANGED <<callVars, memo, sync, model, provider, activeProvidersSetting,
                 searchPrompt, chatStarted>>

\* sendMessage up to its first await
StartSend ==
  /\ ~effectDue
  /\ Len(sends) < MaxSends
  /\ ~isLoading
  /\ \E messageInput \in {NoMessageInput} \cup ChatMessages :
       LET messageContent == IF messageInput # NoMessageInput THEN messageInput ELSE input
       IN  /\ ~IsBlank(messageContent)
           /\ Resolve(Len(sends) + 1,
                      NewSend("send",
                              [message |-> messageContent,
                               hasImages |-> imageDataList > 0,
                               activeProviders |-> activeProvidersSetting],
                              chatStarted, provider, model))
  /\ animating' = (animating \/ ~chatStarted)
  /\ UNCHANGED <<callVars, memo, sync, model, provider, activeProvidersSetting,
                 searchPrompt, navPending, effectDue, chatStarted>>

\* handleModelChange, and the effect that the changed model re-runs
handleModelChange ==
  /\ ~effectDue
  /\ \E newModel \in SelectableModels :
       /\ newModel # model
       /\ model' = newModel
       /\ DeepLinkEffectBody(provider, newModel)
  /\ UNCHANGED <<callVars, memo, sync, provider, activeProvidersSetting,
                 searchPrompt, effectDue, chatStarted>>

\* handleProviderChange, and the effect that the changed provider (and
\* model) re-runs
handleProviderChange ==
  /\ ~effectDue
  /\ \E newProvider \in SelectableProviders :
       LET newModel == IF newProvider.name = NameAutomatic THEN "auto" ELSE model
       IN  /\ newProvider # provider
           /\ provider' = newProvider
           /\ model' = newModel
           /\ DeepLinkEffectBody(newProvider, newModel)
  /\ UNCHANGED <<callVars, memo, sync, activeProvidersSetting,
                 searchPrompt, effectDue, chatStarted>>

\* what the steps of the wrapper leave alone
WrapperFrame ==
  UNCHANGED <<callVars, memo, sync, model, provider, activeProvidersSetting,
              searchPrompt, navPending, effectDue, chatStarted, animating,
              isLoading, input, imageDataList, aborted, stores, messages>>

\* the wrapper reads its input from a variable of the module that every
\* call overwrites
OwnOpts_SharedLatest(s) == sends[Len(sends)].opts

\* the input of the wrapper call of send s
OwnOpts(s) == sends[s].opts

\* the wrapper of send s returns or rejects with res
Settle(s, how, res) ==
  sends' = [sends EXCEPT ![s].call.pc = "settled", ![s].call.how = how,
                         ![s].call.res = res]

\* await import(...) settles in the wrapper of send s, and the wrapper runs
\* to its next await or to its end
ImportSettles(s) ==
  /\ sends[s].call.pc = "import"
  /\ \/ Settle(s, "absent", AfterImportFailed(OwnOpts(s)))
     \/ Settle(s, "noexport", AfterNoExport(OwnOpts(s)))
     \/ sends' = [sends EXCEPT ![s].call.pc = "settled", ![s].call.how = "threw",
                               ![s].call.delegated = @ + 1,
                               ![s].call.res = AfterCallThrew(OwnOpts(s))]
     \/ sends' = [sends EXCEPT ![s].call.pc = "call", ![s].call.delegated = @ + 1]
  /\ WrapperFrame

\* the promise of the delegated call settles in the wrapper of send s
CallSettles(s) ==
  /\ sends[s].call.pc = "call"
  /\ \/ Settle(s, "rejected", AfterCallRejected(OwnOpts(s)))
     \/ \E v \in DelegateValues : Settle(s, "value", AfterCallResolved(v))
  /\ WrapperFrame

\* the send s goes on after await resolveAutoProviderModel(...): the frame
\* of the wrapper is gone and its result is destructured
Continue(s) ==
  /\ sends[s].call.pc = "settled"
  /\ Proceed(s, [sends[s] EXCEPT !.res = sends[s].call.res, !.call = NoWrapper])
  /\ UNCHANGED <<callVars, memo, sync, model, provider, activeProvidersSetting,
                 searchPrompt, navPending, effectDue, chatStarted, animating>>

\* selectStarterTemplate and getTemplates settle for the send s: with a
\* template, or blank or failed
TemplateSettles(s) ==
  /\ sends[s].pc = "template"
  /\ \/ TemplateMessages(s, sends[s])
     \/ FirstMessage(s, sends[s])
  /\ UNCHANGED <<callVars, memo, sync, model, provider, activeProvidersSetting,
                 searchPrompt, navPending, effectDue, chatStarted, animating>>

\* runAnimation after its await: setChatStarted(true)
AnimationDone ==
  /\ animating
  /\ animating' = FALSE
  /\ chatStarted' = TRUE
  /\ UNCHANGED <<callVars, memo, sync, model, provider, activeProvidersSetting,
                 searchPrompt, navPending, effectDue, isLoading, input,
                 imageDataList, aborted, stores, sends, messages>>

\* useChat finishes the response
FinishStreaming ==
  /\ isLoading
  /\ isLoading' = FALSE
  /\ UNCHANGED <<callVars, memo, sync, model, provider, activeProvidersSetting,
                 searchPrompt, navPending, effectDue, chatStarted, animating,
                 input, imageDataList, aborted, stores, sends, messages>>

\* the navigation started by setSearchParams({}) is committed: the next
\* render sees the URL without the prompt, and the effect it re-runs finds
\* no prompt
CommitNavigation ==
  /\ navPending
  /\ navPending' = FALSE
  /\ searchPrompt' = NoPrompt
  /\ UNCHANGED <<callVars, memo, sync, model, provider, activeProvidersSetting,
                 effectDue, chatStarted, animating, isLoading, input,
                 imageDataList, aborted, stores, sends, messages>>

ChatNext ==
  \/ StartSend
  \/ \E s \in DOMAIN sends : ImportSettles(s)
  \/ \E s \in DOMAIN sends : CallSettles(s)
  \/ \E s \in DOMAIN sends : Continue(s)
  \/ \E s \in DOMAIN sends : TemplateSettles(s)
  \/ AnimationDone
  \/ FinishStreaming
  \/ handleModelChange
  \/ handleProviderChange
  \/ DeepLinkEffect
  \/ CommitNavigation

ChatSpec == ChatInit /\ [][ChatNext]_vars

(***************************************************************************)
(* ChatImpl: the guards of sendMessage                                     *)
(***************************************************************************)
\* most sendMessage calls of one behaviour that pass the guards
MaxGuardSends == 1

\* a text of white space only
BlankInput == [body |-> <<" ", "\t">>, pad |-> 0]

\* the second argument of a sendMessage call: omitted, empty, blank, a text
GuardInputs == {NoMessageInput, EmptyInput, BlankInput} \cup ChatMessages

\* const messageContent = messageInput || input
MessageContent(messageInput) ==
  IF messageInput # NoMessageInput /\ messageInput # EmptyInput
  THEN messageInput
  ELSE input

\* abort(): stop(), chatStore.setKey('aborted', true),
\* workbenchStore.abortAllActions(), logStore.logProvider(...)
abort ==
  /\ isLoading' = FALSE
  /\ aborted' = TRUE
  /\ stores' = [runningActions |-> FALSE, abortLogged |-> TRUE]

\* what sendMessage does after the two guards, up to its first await
PassGuards(messageContent) ==
  /\ Len(sends) < MaxGuardSends
  /\ Resolve(Len(sends) + 1,
             NewSend("send",
                     [message |-> messageContent,
                      hasImages |-> imageDataList > 0,
                      activeProviders |-> activeProvidersSetting],
                     chatStarted, provider, model))
  /\ animating' = (animating \/ ~chatStarted)
  /\ UNCHANGED <<callVars, memo, sync, model, provider, activeProvidersSetting,
                 searchPrompt, navPending, effectDue, chatStarted>>

\* sendMessage that tests isLoading before the text
sendMessageWith_LoadingFirst(messageInput) ==
  IF isLoading
  THEN /\ abort
       /\ UNCHANGED <<callVars, memo, sync, model, provider, activeProvidersSetting,
                      searchPrompt, navPending, effectDue, chatStarted, animating,
                      input, imageDataList, sends, messages>>
  ELSE IF IsBlank(MessageContent(messageInput))
  THEN UNCHANGED vars
  ELSE PassGuards(MessageContent(messageInput))

\* sendMessage(_event, messageInput) up to its first await
sendMessageWith(messageInput) ==
  IF IsBlank(MessageContent(messageInput))
  THEN UNCHANGED vars
  ELSE IF isLoading
  THEN /\ abort
       /\ UNCHANGED <<callVars, memo, sync, model, provider, activeProvidersSetting,
                      searchPrompt, navPending, effectDue, chatStarted, animating,
                      input, imageDataList, sends, messages>>
  ELSE PassGuards(MessageContent(messageInput))

sendMessage == \E messageInput \in GuardInputs : sendMessageWith(messageInput)

\* handleInputChange: the user edits the text
handleInputChange ==
  /\ \E text \in {EmptyInput, BlankInput} \cup ChatMessages :
       /\ text # input
       /\ input' = text
  /\ UNCHANGED <<callVars, memo, sync, model, provider, activeProvidersSetting,
                 searchPrompt, navPending, effectDue, chatStarted, animating,
                 isLoading, imageDataList, aborted, stores, sends, messages>>

\* setImageDataList: the user attaches an image or removes the attached one
setImageDataList ==
  /\ imageDataList' = IF imageDataList = 0 THEN 1 ELSE 0
  /\ UNCHANGED <<callVars, memo, sync, model, provider, activeProvidersSetting,
                 searchPrompt, navPending, effectDue, chatStarted, animating,
                 isLoading, input, aborted, stores, sends, messages>>

\* an action of the streamed response starts to run in the workbench, or
\* the running actions end
WorkbenchActions ==
  /\ isLoading \/ stores.runningActions
  /\ stores' = [stores EXCEPT !.runningActions = ~@]
  /\ UNCHANGED <<callVars, memo, sync, model, provider, activeProvidersSetting,
                 searchPrompt, navPending, effectDue, chatStarted, animating,
                 isLoading, input, imageDataList, aborted, sends, messages>>

GuardInit ==
  /\ pc = "idle"
  /\ opts = NoOpts
  /\ result = NoResult
  /\ memo = NoMemo
  /\ sync = NoSync
  /\ model = "auto"
  /\ provider = AutomaticProvider
  /\ activeProvidersSetting \in ChatProviderLists
  /\ searchPrompt = NoPrompt
  /\ navPending = FALSE
  /\ effectDue = FALSE
  /\ messages \in {<<>>, <<InitialMessage>>}
  /\ chatStarted = (messages # <<>>)
  /\ animating = FALSE
  /\ isLoading = FALSE
  /\ input \in {EmptyInput} \cup ChatMessages
  /\ imageDataList = 0
  /\ aborted = FALSE
  /\ stores = NoStores
  /\ sends = <<>>

GuardNext ==
  \/ sendMessage
  \/ handleInputChange
  \/ setImageDataList
  \/ WorkbenchActions
  \/ \E s \in DOMAIN sends : ImportSettles(s)
  \/ \E s \in DOMAIN sends : CallSettles(s)
  \/ \E s \in DOMAIN sends : Continue(s)
  \/ \E s \in DOMAIN sends : TemplateSettles(s)
  \/ AnimationDone
  \/ FinishStreaming

GuardSpec == GuardInit /\ [][GuardNext]_vars

(***************************************************************************)
(* scripts/sync-upstream.sh                                                *)
(***************************************************************************)
\* most commits in the range base..bolt-main
MaxCommits == 2

\* the commits of base..bolt-main in the order of git rev-list --reverse:
\* for each one, whether git cherry-pick meets a conflict
CommitRanges == UNION {[1..n -> BOOLEAN] : n \in 0..MaxCommits}

\* the exit status of the arithmetic command (( expr )): 1 when the value
\* of expr is 0, else 0
ArithStatus(value) == IF value = 0 THEN 1 ELSE 0

\* the run ends with the status code (exit, or set -e after a failed
\* command)
Exit(code) == [sync EXCEPT !.pc = "exited", !.exit = code]

\* the runs: the flags after the parse loop and the repository found
SyncInit ==
  /\ pc = "idle"
  /\ opts = NoOpts
  /\ result = NoResult
  /\ memo = NoMemo
  /\ ChatIdle
  /\ \E mode \in {"pick", "merge", "rebase"}, dry \in {0, 1}, commit \in {0, 1},
        push \in {0, 1}, dirty \in BOOLEAN, bolt \in {"absent", "old", "upstream"},
        commits \in CommitRanges :
       sync = [NoSync EXCEPT !.pc = "commit", !.MODE = mode, !.DRY_RUN = dry,
                             !.DO_COMMIT = commit, !.PUSH = push, !.dirty = dirty,
                             !.bolt = bolt, !.boltBefore = bolt, !.commits = commits]

\* what a step of the script leaves alone
SyncFrame == UNCHANGED <<callVars, memo, chatVars>>

\* 1) commit local se pedido: git add -A, git commit ... || true
LocalCommit ==
  /\ sync.pc = "commit"
  /\ sync' = IF sync.DO_COMMIT = 1 /\ sync.dirty
             THEN [sync EXCEPT !.pc = "fetch", !.dirty = FALSE, !.main.localCommit = TRUE]
             ELSE [sync EXCEPT !.pc = "fetch"]
  /\ SyncFrame

\* 2) git fetch origin || true; git fetch upstream, which set -e makes fatal
FetchRemotes ==
  /\ sync.pc = "fetch"
  /\ \/ sync' = [sync EXCEPT !.pc = "bolt"]
     \/ sync' = Exit(128)
  /\ SyncFrame

\* 3) and 4): bolt-main is reset to (or created at) upstream/main, then
\* git checkout main
UpdateBolt ==
  /\ sync.pc = "bolt"
  /\ sync' = [sync EXCEPT !.pc = "mode", !.bolt = "upstream"]
  /\ SyncFrame

\* git merge and git rebase meet a conflict when a commit of the range does
RangeConflicts == \E i \in DOMAIN sync.commits : sync.commits[i]

\* MODE == merge
MergeMode ==
  /\ sync.pc = "mode"
  /\ sync.MODE = "merge"
  /\ sync' = IF sync.DRY_RUN = 1
             THEN Exit(0)
             ELSE IF RangeConflicts
             THEN Exit(2)
             ELSE [sync EXCEPT !.pc = "push", !.main.merged = TRUE]
  /\ SyncFrame

\* MODE == rebase
RebaseMode ==
  /\ sync.pc = "mode"
  /\ sync.MODE = "rebase"
  /\ sync' = IF sync.DRY_RUN = 1
             THEN Exit(0)
             ELSE IF RangeConflicts
             THEN Exit(2)
             ELSE [sync EXCEPT !.pc = "push", !.main.rebased = TRUE]
  /\ SyncFrame

\* a line of the report
ReportLine(kind, c) == [kind |-> kind, commit |-> c, applied |-> 0, skipped |-> 0]

\* MODE == pick, up to the loop: the head of the report, applied=0;
\* skipped=0
StartPick ==
  /\ sync.pc = "mode"
  /\ sync.MODE = "pick"
  /\ sync' = [sync EXCEPT !.pc = "loop", !.applied = 0, !.skipped = 0, !.next = 1,
                          !.report = <<ReportLine("head", Len(sync.commits))>>]
  /\ SyncFrame

\* one pass of for c in "${commits[@]}"
PickNext ==
  /\ sync.pc = "loop"
  /\ sync.next <= Len(sync.commits)
  /\ LET c == sync.next
         conflict == sync.commits[c]
     IN  sync' =
           IF sync.DRY_RUN = 1
           THEN [sync EXCEPT !.next = c + 1,
                             !.report = Append(@, ReportLine("would pick", c))]
           ELSE IF ~conflict
           THEN \* git cherry-pick -x, the line, ((applied++)) under set -e
                LET run == [sync EXCEPT !.main.picked = Append(@, c),
                                        !.report = Append(@, ReportLine("applied", c)),
                                        !.applied = @ + 1]
                IN  IF ArithStatus(sync.applied) # 0
                    THEN [run EXCEPT !.pc = "exited", !.exit = ArithStatus(sync.applied)]
                    ELSE [run EXCEPT !.next = c + 1]
           ELSE \* git cherry-pick --abort || true, the line, ((skipped++))
                LET run == [sync EXCEPT !.report = Append(@, ReportLine("conflict", c)),
                                        !.skipped = @ + 1]
                IN  IF ArithStatus(sync.skipped) # 0
                    THEN [run EXCEPT !.pc = "exited", !.exit = ArithStatus(sync.skipped)]
                    ELSE [run EXCEPT !.next = c + 1]
  /\ SyncFrame

\* after the loop: the totals, then exit 0 of the dry run or the commit of
\* the report
WriteTotals ==
  /\ sync.pc = "loop"
  /\ sync.next > Len(sync.commits)
  /\ LET totals == [kind |-> "totals", commit |-> 0,
                    applied |-> sync.applied, skipped |-> sync.skipped]
         run == [sync EXCEPT !.report = Append(@, totals)]
     IN  sync' = IF sync.DRY_RUN = 1
                 THEN [run EXCEPT !.pc = "exited", !.exit = 0]
                 ELSE [run EXCEPT !.pc = "push", !.main.reportCommit = TRUE]
  /\ SyncFrame

\* 5) push se pedido, git checkout of the branch the run started on, and
\* the end of the script
PushAndFinish ==
  /\ sync.pc = "push"
  /\ sync' = [sync EXCEPT !.pc = "exited", !.exit = 0, !.pushed = (sync.PUSH = 1)]
  /\ SyncFrame

SyncNext ==
  \/ LocalCommit
  \/ FetchRemotes
  \/ UpdateBolt
  \/ MergeMode
  \/ RebaseMode
  \/ StartPick
  \/ PickNext
  \/ WriteTotals
  \/ PushAndFinish

SyncSpec == SyncInit /\ [][SyncNext]_vars

(***************************************************************************)
(* Vocabulary of the properties                                            *)
(***************************************************************************)
\* a and b are the same string up to the case of their letters
EqualIgnoringCase(a, b) ==
  /\ Len(a) = Len(b)
  /\ \A i \in DOMAIN a :
       \/ a[i] = b[i]
       \/ \E k \in DOMAIN UpperChars : {a[i], b[i]} = {UpperChars[k], LowerChars[k]}

\* the names of the model that equal n up to case, computed once
SameName == [n \in KnownNames |-> {m \in KnownNames : EqualIgnoringCase(n, m)}]

\* the provider p carries the name n, compared without case
IsNamed(p, n) == p # undefinedProvider /\ n \in SameName[p.name]

\* a provider named n is in the list ap
ActiveIn(ap, n) == \E i \in DOMAIN ap : IsNamed(ap[i], n)

\* a provider named n is active in the current call
Active(n) == ActiveIn(opts.activeProviders, n)

\* the call has returned
Returned == pc = "done"

\* the message of the current call has at most 1200 characters
MsgShort == Length(opts.message) <= ShortLimit

\* the message of the current call is code-like
MsgCodey == isCodey(opts.message)

\* the conditions under which the four rules apply to the current call
LMStudioApplies == Active(NameLMStudio) /\ MsgShort /\ ~opts.hasImages
OllamaApplies == Active(NameOllama) /\ MsgShort /\ ~opts.hasImages
OpenRouterApplies == Active(NameOpenRouter)
OpenAIApplies == Active(NameOpenAI)

\* the result carries one of the supplied provider objects, named n
ReturnsActive(n) ==
  /\ IsNamed(result.provider, n)
  /\ \E i \in DOMAIN opts.activeProviders : opts.activeProviders[i] = result.provider

(***************************************************************************)
(* Properties                                                              *)
(***************************************************************************)
\* a result with a provider that carries a name, and a model identifier or
\* no model
ResultWellFormed ==
  /\ result.provider # undefinedProvider
  /\ result.provider.name \in KnownNames
  /\ result.model \in ModelIds \cup {undefined}

\* C1: for every message, hasImages and list of named providers (the empty
\* list included) a call of chooseProviderAndModel returns, and what it
\* returns is a provider together with a model identifier or no model; there
\* is no outcome without a provider.
C1_AlwaysReturnsResult ==
  /\ [](Returned => ResultWellFormed)
  /\ (pc = "called") ~> Returned

C1_Witness ==
  /\ Returned
  /\ Len(opts.activeProviders) >= 2
  /\ result.model = undefined

\* C2: with no active provider the result is the synthetic provider named
\* OpenRouter with the model meta-llama/llama-3.1-8b-instruct, whatever the
\* message and hasImages.
C2_EmptyGivesSyntheticFallback ==
  (Returned /\ opts.activeProviders = <<>>) =>
    /\ result.provider.name = NameOpenRouter
    /\ result.provider.ref = SyntheticRef
    /\ result.model = "meta-llama/llama-3.1-8b-instruct"

C2_Witness ==
  /\ Returned
  /\ opts.activeProviders = <<>>
  /\ opts.hasImages
  /\ ~MsgShort
  /\ MsgCodey
  /\ result.provider = SyntheticProvider

\* C3: when a provider named LMStudio is active, the message is short and
\* there are no images, the LMStudio provider is returned whatever else is
\* active, with qwen2.5-coder-7b-instruct for a code-like message and
\* meta-llama-3.1-8b-instruct otherwise.
C3_LMStudioRule ==
  (Returned /\ LMStudioApplies) =>
    /\ ReturnsActive(NameLMStudio)
    /\ result.model = (IF MsgCodey THEN "qwen2.5-coder-7b-instruct"
                                   ELSE "meta-llama-3.1-8b-instruct")

C3_Witness ==
  /\ Returned
  /\ LMStudioApplies
  /\ MsgCodey
  /\ Len(opts.activeProviders) >= 2
  /\ IsNamed(opts.activeProviders[1], NameOpenRouter)
  /\ result.model = "qwen2.5-coder-7b-instruct"

\* the hyphenated identifiers of LM Studio and the colon identifiers of
\* Ollama
LMStudioIds == {"qwen2.5-coder-7b-instruct", "meta-llama-3.1-8b-instruct"}
OllamaIds == {"deepseek-coder:6.7b", "llama3.1:8b"}

\* C4: without LMStudio, with Ollama active, a short message and no images,
\* the Ollama provider is returned with deepseek-coder:6.7b for a code-like
\* message and llama3.1:8b otherwise; no result pairs Ollama with an LM
\* Studio identifier or LMStudio with an Ollama identifier.
C4_OllamaRule ==
  Returned =>
    /\ (~Active(NameLMStudio) /\ OllamaApplies) =>
         /\ ReturnsActive(NameOllama)
         /\ result.model = (IF MsgCodey THEN "deepseek-coder:6.7b" ELSE "llama3.1:8b")
    /\ IsNamed(result.provider, NameOllama) => result.model \notin LMStudioIds
    /\ IsNamed(result.provider, NameLMStudio) => result.model \notin OllamaIds

C4_Witness ==
  /\ Returned
  /\ ~Active(NameLMStudio)
  /\ OllamaApplies
  /\ ~MsgCodey
  /\ Active(NameOpenRouter)
  /\ result.model = "llama3.1:8b"

\* the three sub-cases of the OpenRouter rule
OpenRouterCoderCase == MsgCodey /\ MsgShort /\ ~opts.hasImages
OpenRouterVisionCase == opts.hasImages \/ ~MsgShort
OpenRouterGeneralCase == ~OpenRouterCoderCase /\ ~OpenRouterVisionCase

\* C5: when the OpenRouter rule is the first applicable one, the OpenRouter
\* provider is returned with deepseek/deepseek-coder for a code-like, short
\* message without images, openai/gpt-4o-mini when there are images or the
\* message is not short, and meta-llama/llama-3.1-8b-instruct otherwise;
\* exactly one of the three cases holds.
C5_OpenRouterRule ==
  (Returned /\ OpenRouterApplies /\ ~LMStudioApplies /\ ~OllamaApplies) =>
    /\ ReturnsActive(NameOpenRouter)
    /\ OpenRouterCoderCase => result.model = "deepseek/deepseek-coder"
    /\ OpenRouterVisionCase => result.model = "openai/gpt-4o-mini"
    /\ OpenRouterGeneralCase => result.model = "meta-llama/llama-3.1-8b-instruct"
    /\ ~(OpenRouterCoderCase /\ OpenRouterVisionCase)
    /\ OpenRouterCoderCase \/ OpenRouterVisionCase \/ OpenRouterGeneralCase

C5_Witness ==
  /\ Returned
  /\ OpenRouterApplies /\ ~LMStudioApplies /\ ~OllamaApplies
  /\ MsgCodey /\ ~MsgShort /\ ~opts.hasImages
  /\ Active(NameOllama)
  /\ result.model = "openai/gpt-4o-mini"

\* C6: with OpenRouter active and a message longer than 1200 characters or
\* images attached, LMStudio and Ollama are passed over even when active
\* and OpenRouter is returned with openai/gpt-4o-mini.
C6_LongOrImagesGoToOpenRouter ==
  (Returned /\ Active(NameOpenRouter) /\ (Length(opts.message) > 1200 \/ opts.hasImages)) =>
    /\ ReturnsActive(NameOpenRouter)
    /\ result.model = "openai/gpt-4o-mini"

C6_Witness ==
  /\ Returned
  /\ Len(opts.activeProviders) = 2
  /\ opts.activeProviders[1].name = NameOllama
  /\ opts.activeProviders[2].name = NameOpenRouter
  /\ Length(opts.message) > 1200 /\ ~opts.hasImages /\ ~MsgCodey
  /\ result.provider = opts.activeProviders[2]

\* C7: when the OpenAI rule is the first applicable one, the OpenAI provider
\* is returned with gpt-4o-mini for every length, code-likeness and
\* hasImages.
C7_OpenAIRule ==
  (Returned /\ OpenAIApplies /\ ~OpenRouterApplies /\ ~LMStudioApplies /\ ~OllamaApplies) =>
    /\ ReturnsActive(NameOpenAI)
    /\ result.model = "gpt-4o-mini"

C7_Witness ==
  /\ Returned
  /\ OpenAIApplies /\ ~OpenRouterApplies /\ ~LMStudioApplies /\ ~OllamaApplies
  /\ opts.hasImages /\ MsgCodey
  /\ Active(NameLMStudio)
  /\ result.model = "gpt-4o-mini"

\* none of the four rules applies to the current call
NoRuleApplies ==
  ~LMStudioApplies /\ ~OllamaApplies /\ ~OpenRouterApplies /\ ~OpenAIApplies

\* the provider carries none of the four recognized names
Unrecognized(p) == \A n \in RecognizedNames : ~IsNamed(p, n)

\* C8: with a non-empty list and none of the four rules applicable the
\* result is activeProviders[0] without a model; a provider with an
\* unrecognized name is returned only there, and the model is absent only
\* there.
C8_FirstProviderFallback ==
  Returned =>
    /\ (opts.activeProviders # <<>> /\ NoRuleApplies) =>
         /\ result.provider = opts.activeProviders[1]
         /\ result.model = undefined
    /\ Unrecognized(result.provider) =>
         /\ opts.activeProviders # <<>> /\ NoRuleApplies
         /\ result.provider = opts.activeProviders[1]
    /\ result.model = undefined => (opts.activeProviders # <<>> /\ NoRuleApplies)

C8_Witness ==
  /\ Returned
  /\ Len(opts.activeProviders) >= 2
  /\ NoRuleApplies
  /\ Unrecognized(result.provider)
  /\ IsNamed(opts.activeProviders[2], NameOllama)
  /\ result.provider # opts.activeProviders[2]

\* the permutations of 1..n, computed once
PermutationsOf ==
  [n \in 0..MaxProviders |->
     {f \in [1..n -> 1..n] : \A i, j \in 1..n : i # j => f[i] # f[j]}]

\* no two providers of the list carry the same name up to case
DistinctNames(ap) ==
  \A i, j \in DOMAIN ap : i # j => ap[j].name \notin SameName[ap[i].name]

\* the name of the first rule, in the order LMStudio, Ollama, OpenRouter,
\* OpenAI, that applies to the current call
FirstApplicableRule ==
  IF LMStudioApplies THEN NameLMStudio
  ELSE IF OllamaApplies THEN NameOllama
  ELSE IF OpenRouterApplies THEN NameOpenRouter
  ELSE NameOpenAI

\* C9: when a rule applies, the provider of the first applicable rule in the
\* order LMStudio, Ollama, OpenRouter, OpenAI is returned, and for a list
\* with names that are distinct up to case every permutation of the list
\* gives the same provider name and the same model.
C9_RuleOrderNotListOrder ==
  (Returned /\ ~NoRuleApplies) =>
    /\ IsNamed(result.provider, FirstApplicableRule)
    /\ DistinctNames(opts.activeProviders) =>
         \A f \in PermutationsOf[Len(opts.activeProviders)] :
           LET permuted == [i \in DOMAIN opts.activeProviders |-> opts.activeProviders[f[i]]]
               other == chooseProviderAndModel([opts EXCEPT !.activeProviders = permuted])
           IN  /\ other.provider.name = result.provider.name
               /\ other.model = result.model

C9_Witness ==
  /\ Returned
  /\ Len(opts.activeProviders) >= 2
  /\ DistinctNames(opts.activeProviders)
  /\ LMStudioApplies /\ OllamaApplies
  /\ IsNamed(opts.activeProviders[1], NameOllama)
  /\ IsNamed(result.provider, NameLMStudio)

\* the list ap with every name replaced by conv of the name
Respell(ap, conv(_)) == [i \in DOMAIN ap |-> [ap[i] EXCEPT !.name = conv(ap[i].name)]]

\* the results r and s have the same model and the provider object of the
\* same position
SameChoice(r, s) == r.model = s.model /\ r.provider.ref = s.provider.ref

\* C10: the lookup matches a name exactly and without regard to case:
\* writing the names of the list in lower or in upper case changes neither
\* the chosen provider object nor the model, a lookup returns a provider of
\* the list that carries the looked-up name up to case (never one whose name
\* only contains it), and it returns nothing exactly when no such provider
\* is in the list.
C10_LookupIgnoresCaseExactly ==
  Returned =>
    /\ SameChoice(result,
         chooseProviderAndModel(
           [opts EXCEPT !.activeProviders = Respell(opts.activeProviders, toLowerCase)]))
    /\ SameChoice(result,
         chooseProviderAndModel(
           [opts EXCEPT !.activeProviders = Respell(opts.activeProviders, toUpperCase)]))
    /\ \A n \in RecognizedNames :
         LET found == byName(opts.activeProviders, n)
         IN  /\ found = undefinedProvider <=> ~Active(n)
             /\ found # undefinedProvider =>
                  /\ EqualIgnoringCase(found.name, n)
                  /\ \E i \in DOMAIN opts.activeProviders : opts.activeProviders[i] = found

C10_Witness ==
  /\ Returned
  /\ Len(opts.activeProviders) >= 2
  /\ opts.activeProviders[1].name = NameOpenRouter2
  /\ opts.activeProviders[2].name = toLowerCase(NameLMStudio)
  /\ byName(opts.activeProviders, NameOpenRouter) = undefinedProvider
  /\ result.provider = opts.activeProviders[2]

\* C11: a message is short exactly when it has at most 1200 characters:
\* with LMStudio active and no images, a message of 1200 characters (and
\* every shorter one) takes the LMStudio rule, and a message of 1201
\* characters (and every longer one) does not.
C11_ShortBoundary ==
  (Returned /\ Active(NameLMStudio) /\ ~opts.hasImages) =>
    /\ Length(opts.message) <= 1200 =>
         (ReturnsActive(NameLMStudio) /\ result.model \in LMStudioIds)
    /\ Length(opts.message) >= 1201 => result.model \notin LMStudioIds

C11_Witness ==
  /\ Returned
  /\ Active(NameLMStudio) /\ ~opts.hasImages
  /\ Length(opts.message) = 1200
  /\ opts.message.pad > 0
  /\ result.model = "meta-llama-3.1-8b-instruct"

\* the text t contains the text p
Contains(t, p) ==
  \E i \in 1..(Len(t) - Len(p) + 1) : SubSeq(t, i, i + Len(p) - 1) = p

\* the keywords that the specification lists besides function and class
SpacedKeywords ==
  {<<"c","o","n","s","t">>,
   <<"l","e","t">>,
   <<"v","a","r">>,
   <<"i","m","p","o","r","t">>,
   <<"d","e","f">>,
   <<"p","u","b","l","i","c">>,
   <<"p","r","i","v","a","t","e">>}

\* the text t contains a tag <name> or </name> whose name consists of word
\* characters and hyphens
HasTag(t) ==
  \E i \in 1..Len(t) :
    /\ t[i] = "<"
    /\ \E k \in (i + 2)..Len(t) :
         /\ t[k] = ">"
         /\ LET j == IF t[i + 1] = "/" THEN i + 2 ELSE i + 1
            IN  j <= k - 1 /\ \A q \in j..(k - 1) : IsTagChar(t[q])

\* the pattern classes that do not depend on the reading of a keyword: the
\* code fence, function, class, a tag or an opening <div, and the
\* characters ; { (
OtherPatternClass(t) ==
  \/ Contains(t, <<Grave, Grave, Grave>>)
  \/ Contains(t, <<"f","u","n","c","t","i","o","n">>)
  \/ Contains(t, <<"c","l","a","s","s">>)
  \/ Contains(t, <<"<","d","i","v">>)
  \/ HasTag(t)
  \/ \E c \in {";", "{", "("} : Contains(t, <<c>>)

\* code-like as the claim reads: any occurrence of a listed keyword counts
ClaimedCodey ==
  [m \in Messages |->
     \/ OtherPatternClass(Text(m))
     \/ \E k \in SpacedKeywords : Contains(Text(m), k)]

\* code-like as amended: const, let, var, import, def, public and private
\* count only when a space follows them
AmendedCodey ==
  [m \in Messages |->
     \/ OtherPatternClass(Text(m))
     \/ \E k \in SpacedKeywords : Contains(Text(m), k \o <<" ">>)]

\* C12 as stated: a message is code-like if and only if it contains a code
\* fence, one of the keywords function, class, def, const, let, var, import,
\* public, private, an HTML-tag-like substring or one of ; { (
C12_AsStated ==
  Returned => (MsgCodey <=> ClaimedCodey[opts.message])

\* C12, amended: a message is code-like if and only if it contains a code
\* fence, function, class, one of const, let, var, import, def, public,
\* private followed by a space, a tag <name> or </name> or an opening <div,
\* or one of ; { (; a keyword of the second group without a space after it
\* does not make a message code-like.
C12_CodeyPatternClasses ==
  Returned => (MsgCodey <=> AmendedCodey[opts.message])

C12_Witness ==
  /\ Returned
  /\ opts.message.body = BodyLetter
  /\ ClaimedCodey[opts.message]
  /\ ~MsgCodey
  /\ LMStudioApplies
  /\ result.model = "meta-llama-3.1-8b-instruct"

Settled(s) == sends[s].call.pc = "settled"

\* the wrapper call of the send s took the path how
SettledBy(s, how) == Settled(s) /\ sends[s].call.how = how

\* the wrapper returns, without an error, what chooseProviderAndModel gives
\* for the input o
ReturnsLocalChoice(res, o) ==
  /\ res.status = "returned"
  /\ res.value.kind = "object"
  /\ res.value.provider = chooseProviderAndModel(o).provider
  /\ res.value.model = chooseProviderAndModel(o).model

\* the user messages that the send s handed to useChat
MessagesOf(s) == {i \in DOMAIN messages : messages[i].by = s /\ messages[i].role = "user"}

\* C14: when the delegation module loads and exports a callable
\* resolveAutoProviderModel and that call throws or rejects, the wrapper
\* returns (no error leaves it) and its result is that of
\* chooseProviderAndModel for the same input.
C14_FailedDelegateFallsBack ==
  \A s \in DOMAIN sends :
    (SettledBy(s, "threw") \/ SettledBy(s, "rejected"))
      => /\ sends[s].call.delegated = 1
         /\ ReturnsLocalChoice(sends[s].call.res, sends[s].opts)

C14_Witness ==
  \E s \in DOMAIN sends :
    /\ SettledBy(s, "rejected")
    /\ sends[s].call.delegated = 1
    /\ sends[s].call.res.status = "returned"
    /\ sends[s].call.res.value.provider.name = NameOpenRouter

\* C15: when the delegation module is absent, fails to load, or loads
\* without a function-valued export resolveAutoProviderModel, the wrapper
\* returns without an error, has made no delegated call, and its result is
\* that of chooseProviderAndModel for the same input.
C15_AbsentDelegateFallsBack ==
  \A s \in DOMAIN sends :
    (SettledBy(s, "absent") \/ SettledBy(s, "noexport"))
      => /\ sends[s].call.delegated = 0
         /\ ReturnsLocalChoice(sends[s].call.res, sends[s].opts)

C15_Witness ==
  \E s \in DOMAIN sends :
    /\ SettledBy(s, "absent")
    /\ sends[s].call.delegated = 0
    /\ sends[s].call.res.status = "returned"
    /\ sends[s].call.res.value.provider.name = NameOpenRouter

\* C16: whatever the delegation module does, once it has settled the
\* wrapper has returned an object that carries a provider, and no send ends
\* with an error instead of tagging and dispatching its message.
C16_ResolutionNeverFails ==
  \A s \in DOMAIN sends :
    /\ Settled(s) => /\ sends[s].call.res.status = "returned"
                     /\ sends[s].call.res.value.kind = "object"
                     /\ sends[s].call.res.value.provider # undefinedProvider
    /\ sends[s].pc # "failed"

\* C17: a sendMessage call made in Automatic mode calls the wrapper exactly
\* once, hands no message to useChat while that call has not settled or its
\* result has not been taken, and dispatches only with a returned result.
C17_ResolveOnceBeforeDispatch ==
  \A s \in DOMAIN sends :
    (sends[s].kind = "send" /\ IsAutomatic(sends[s].selProvider, sends[s].selModel))
      => /\ sends[s].resolutions = 1
         /\ sends[s].call.pc # "none" => (sends[s].dispatches = 0 /\ MessagesOf(s) = {})
         /\ sends[s].dispatches > 0 => sends[s].res.status = "returned"
         /\ sends[s].dispatches <= 1

C17_Witness ==
  \E s \in DOMAIN sends :
    /\ sends[s].kind = "send"
    /\ IsAutomatic(sends[s].selProvider, sends[s].selModel)
    /\ sends[s].resolutions = 1
    /\ sends[s].dispatches = 1
    /\ sends[s].call.pc = "none"
    /\ MessagesOf(s) # {}
    /\ \E t \in DOMAIN sends :
         /\ t # s
         /\ sends[t].kind = "send"
         /\ sends[t].call.pc = "call"
         /\ MessagesOf(t) = {}

\* the deep-link sends of the behaviour (its URL carries one prompt)
DeepLinkSends == {s \in DOMAIN sends : sends[s].kind = "deeplink"}

\* C18: for the deep link of the page, resolution runs once and one user
\* message is appended, also when the effect re-runs because model, provider
\* or searchParams change while the resolution is pending.
C18_DeepLinkOnce ==
  /\ Cardinality(DeepLinkSends) <= 1
  /\ Cardinality({i \in DOMAIN messages : messages[i].path = "deeplink"}) <= 1

\* the text of a user message starts with the markers of the model m and of
\* the provider named p
StartsWithTags(msg, m, p) ==
  /\ Len(msg.text) > Len(TaggedText(m, p, <<>>))
  /\ SubSeq(msg.text, 1, Len(TaggedText(m, p, <<>>))) = TaggedText(m, p, <<>>)

\* C19: every user message dispatched by sendMessage or by the deep-link
\* handler starts with [Model: m] and [Provider: p], p the name of the
\* resolved provider and m the resolved model or, when that is absent, the
\* selected model; all messages of one send carry the same pair.
C19_TagsAreResolvedPair ==
  \A i \in DOMAIN messages :
    (messages[i].role = "user" /\ messages[i].by # 0)
      => LET send == sends[messages[i].by]
         IN  StartsWithTags(messages[i],
                            IF send.res.value.model # undefined
                            THEN send.res.value.model ELSE send.selModel,
                            send.res.value.provider.name)

\* what a wrapper call that took the path how returns when it runs alone on
\* the input o
AloneResults(o, how) ==
  IF how = "value"
  THEN {[status |-> "returned", value |-> v] : v \in DelegateValues}
  ELSE {[status |-> "returned",
         value |-> [kind |-> "object",
                    provider |-> chooseProviderAndModel(o).provider,
                    model |-> chooseProviderAndModel(o).model]]}

\* C20: when several wrapper calls are in flight and their awaits settle in
\* any order, each returns what it returns alone on its own input.
C20_IndependentResolutions ==
  \A s \in DOMAIN sends :
    Settled(s) => sends[s].call.res \in AloneResults(sends[s].opts, sends[s].call.how)

C20_Witness ==
  \E s \in DOMAIN sends, t \in DOMAIN sends :
    /\ s < t
    /\ sends[s].opts # sends[t].opts
    /\ SettledBy(t, "noexport")
    /\ SettledBy(s, "rejected")
    /\ sends[s].call.res # sends[t].call.res

(***************************************************************************)
(* Further properties of chooseProviderAndModel                            *)
(***************************************************************************)
\* the returned provider is the very object at some position of the list
ReturnsListElement ==
  \E i \in DOMAIN opts.activeProviders : opts.activeProviders[i] = result.provider

\* C24: the provider returned by chooseProviderAndModel is an element of
\* activeProviders (the object supplied) or, only when activeProviders is
\* empty, the synthetic provider named OpenRouter; no provider is invented
\* while a provider is active.
C24_ProviderFromListOrSynthetic ==
  Returned =>
    /\ ReturnsListElement \/ (opts.activeProviders = <<>> /\ result.provider = SyntheticProvider)
    /\ opts.activeProviders # <<>> => ReturnsListElement

C24_Witness ==
  /\ Returned
  /\ Len(opts.activeProviders) >= 2
  /\ result.provider = opts.activeProviders[2]
  /\ result.provider # opts.activeProviders[1]
  /\ IsNamed(result.provider, NameOpenRouter)
  /\ ~IsNamed(opts.activeProviders[1], NameOpenRouter)

FixedSelection(s) ==
  sends[s].selProvider.name # NameAutomatic /\ sends[s].selModel # "auto"

\* C22: a send (sendMessage or deep link) started with a provider not named
\* Automatic and a model other than auto never calls
\* resolveAutoProviderModel and tags its messages with the selected model
\* and provider; a send started with the provider Automatic or the model
\* auto calls it.
C22_ResolutionOnlyInAutomaticMode ==
  \A s \in DOMAIN sends :
    /\ FixedSelection(s) =>
         /\ sends[s].resolutions = 0
         /\ sends[s].call = NoWrapper
         /\ \A i \in MessagesOf(s) :
              StartsWithTags(messages[i], sends[s].selModel, sends[s].selProvider.name)
    /\ ~FixedSelection(s) => sends[s].resolutions = 1

C22_Witness ==
  \E s \in DOMAIN sends, t \in DOMAIN sends :
    /\ FixedSelection(s)
    /\ sends[s].kind = "deeplink"
    /\ sends[s].resolutions = 0
    /\ MessagesOf(s) # {}
    /\ sends[t].kind = "send"
    /\ sends[t].selProvider.name # NameAutomatic
    /\ sends[t].selModel = "auto"
    /\ sends[t].resolutions = 1
    /\ MessagesOf(t) # {}

\* C26: a sendMessage call whose text is empty or white space changes no
\* state (so it starts no resolution); a call with a text made while a
\* response is loading stops the response, sets the aborted flag and aborts
\* the workbench actions, and dispatches no message, starts no resolution
\* and leaves the input and the attached images as they are.
C26_GuardsOfSendMessage ==
  [][\A messageInput \in GuardInputs :
       sendMessageWith(messageInput) =>
         /\ IsBlank(MessageContent(messageInput)) => UNCHANGED vars
         /\ (~IsBlank(MessageContent(messageInput)) /\ isLoading) =>
              /\ ~isLoading'
              /\ aborted'
              /\ ~stores'.runningActions
              /\ UNCHANGED <<messages, sends, input, imageDataList, model, provider,
                             chatStarted, animating, searchPrompt>>]_vars

C26_Witness ==
  /\ aborted
  /\ stores.abortLogged
  /\ ~stores.runningActions
  /\ ~isLoading
  /\ input \in ChatMessages
  /\ imageDataList = 1
  /\ Len(sends) = 1
  /\ sends[1].dispatches = 1
  /\ sends[1].resolutions = 1
  /\ Len(messages) >= 1

(***************************************************************************)
(* Properties of scripts/sync-upstream.sh                                  *)
(***************************************************************************)
\* the run has ended and no Git command other than merge, rebase or
\* cherry-pick failed in it
EndedWithoutGitFailure == sync.pc = "exited" /\ sync.exit # 128

\* C21: a run with --dry-run, in each of the modes pick, merge and rebase,
\* exits 0, applies no merge, rebase or cherry-pick, and changes no branch
\* of the repository.
C21_DryRunOnlySimulates ==
  (sync.DRY_RUN = 1 /\ EndedWithoutGitFailure) =>
    /\ sync.exit = 0
    /\ ~sync.main.merged
    /\ ~sync.main.rebased
    /\ sync.main.picked = <<>>
    /\ sync.main = MainUntouched
    /\ sync.bolt = sync.boltBefore

\* the report ends with the totals
ReportHasTotals ==
  /\ sync.report # <<>>
  /\ sync.report[Len(sync.report)].kind = "totals"

\* C23: a run in pick mode without --dry-run attempts every commit of the
\* range in order, skips the commits that conflict and goes on, reaches the
\* end of the loop and writes a report whose totals satisfy applied +
\* skipped = number of commits of the range.
C23_PickLoopCompletes ==
  (sync.MODE = "pick" /\ sync.DRY_RUN = 0 /\ EndedWithoutGitFailure) =>
    /\ sync.next = Len(sync.commits) + 1
    /\ ReportHasTotals
    /\ sync.applied + sync.skipped = Len(sync.commits)
    /\ sync.main.picked = SelectSeq([i \in DOMAIN sync.commits |-> i],
                                    LAMBDA i : ~sync.commits[i])

====
